---- MODULE Spec2Model ----
(***************************************************************************)
(* Model of package sparql (repo.go, sparql.go): the SPARQL JSON result    *)
(* model with its term materialisation, and the Repo HTTP client.          *)
(*                                                                         *)
(* Strings whose characters the code inspects are sequences of characters; *)
(* a run of characters that no inspected predicate distinguishes is kept   *)
(* as one element (for instance the fixed texts of the error messages).    *)
(***************************************************************************)
EXTENDS Integers, Sequences, FiniteSets, TLC

VARIABLES
    res,            \* decoder: the *Results a ParseJSON call produced
    call,           \* decoder: the last call on res and what it returned
    DefaultClient,  \* http.DefaultClient: the one *http.Client every Repo points to
    repos,          \* the Repo values handed out by NewRepo, in creation order
    wanted,         \* per Repo: the configuration its own options asked for
    last,           \* client: the last finished call and what it returned
    openBodies,     \* number of response bodies obtained and not yet closed
    pc              \* concurrent callers: where each caller stands in its call

vars == <<res, call, DefaultClient, repos, wanted, last, openBodies, pc>>

(***************************************************************************)
(* Bounds of the model.                                                    *)
(***************************************************************************)
MaxVars == 2        \* length of head.vars
MaxRows == 2        \* number of solution rows
MaxOpts == 2        \* number of options in one NewRepo / SetOption call
MaxRepos == 2       \* number of Repo values alive
MaxBody == 2        \* length of a non-200 response body, in characters

NoErr == "nil"

BoundedSeq(S, n) == UNION {[1..k -> S] : k \in 0..n}

Range(s) == {s[i] : i \in DOMAIN s}

(***************************************************************************)
(* github.com/knakk/rdf, as called from termFromJSON.                      *)
(***************************************************************************)
Whitespace == {" ", "\t", "\n"}

\* characters rdf.NewIRI rejects: the control characters and the space, the
\* angle brackets, the braces, the bar, the caret (and the quote, the
\* backquote and the backslash, which no input of the model contains)
DisallowedIRIChars == Whitespace \cup {"<", ">", "{", "}", "|", "^"}

Letters == {"e", "n", "a"}

Digits == {"1"}

NilTerm == [kind |-> "nil", str |-> <<>>, lang |-> <<>>, DataType |-> <<>>]

TrimSpaceEmpty(s) == \A i \in DOMAIN s : s[i] \in Whitespace

\* rdf.NewBlank: an empty or all-whitespace label is an error
NewBlank(id) ==
    IF TrimSpaceEmpty(id)
    THEN [term |-> [kind |-> "Blank", str |-> <<>>, lang |-> <<>>, DataType |-> <<>>],
          err |-> "blank id"]
    ELSE [term |-> [kind |-> "Blank", str |-> id, lang |-> <<>>, DataType |-> <<>>],
          err |-> NoErr]

\* rdf.NewIRI: an empty string or a disallowed character is an error
NewIRI(iri) ==
    IF Len(iri) = 0
    THEN [term |-> [kind |-> "IRI", str |-> <<>>, lang |-> <<>>, DataType |-> <<>>],
          err |-> "empty IRI"]
    ELSE IF \E i \in DOMAIN iri : iri[i] \in DisallowedIRIChars
    THEN [term |-> [kind |-> "IRI", str |-> <<>>, lang |-> <<>>, DataType |-> <<>>],
          err |-> "disallowed character"]
    ELSE [term |-> [kind |-> "IRI", str |-> iri, lang |-> <<>>, DataType |-> <<>>],
          err |-> NoErr]

rdfLangString == <<"http://www.w3.org/1999/02/22-rdf-syntax-ns#langString">>

\* rdf.NewLangLiteral: letters, at most one dash, digits only after the dash,
\* no leading or trailing dash
LangTagOK(lang) ==
    /\ Len(lang) > 0
    /\ lang[1] # "-"
    /\ lang[Len(lang)] # "-"
    /\ \A i \in DOMAIN lang :
         \/ lang[i] \in Letters
         \/ lang[i] = "-" /\ ~ \E j \in 1..(i-1) : lang[j] = "-"
         \/ lang[i] \in Digits /\ \E j \in 1..(i-1) : lang[j] = "-"

NewLangLiteral(val, lang) ==
    IF LangTagOK(lang)
    THEN [term |-> [kind |-> "Literal", str |-> val, lang |-> lang, DataType |-> rdfLangString],
          err |-> NoErr]
    ELSE [term |-> [kind |-> "Literal", str |-> <<>>, lang |-> <<>>, DataType |-> <<>>],
          err |-> "invalid language tag"]

\* rdf.NewTypedLiteral: never fails
NewTypedLiteral(val, tp) ==
    [kind |-> "Literal", str |-> val, lang |-> <<>>, DataType |-> tp]

\* sparql.go init(): xsdString
xsdString == NewIRI(<<"http://www.w3.org/2001/XMLSchema#string">>).term.str

(***************************************************************************)
(* repo.go: Binding, termFromJSON, Results.Bindings, Results.Solutions     *)
(***************************************************************************)
\* the zero Binding: what b[v] yields for a variable the row does not bind
ZeroBinding == [Type |-> "", Value |-> <<>>, Lang |-> <<>>, DataType |-> <<>>]

\* a termFromJSON that ignores the language tag of a literal
termFromJSONNoLang(b) ==
    CASE b.Type = "bnode" -> NewBlank(b.Value)
      [] b.Type = "uri" -> NewIRI(b.Value)
      [] b.Type = "literal" -> [term |-> NewTypedLiteral(b.Value, xsdString), err |-> NoErr]
      [] b.Type = "typed-literal" ->
            LET iri == NewIRI(b.DataType)
            IN  IF iri.err # NoErr
                THEN [term |-> NilTerm, err |-> iri.err]
                ELSE [term |-> NewTypedLiteral(b.Value, iri.term.str), err |-> NoErr]
      [] OTHER -> [term |-> NilTerm, err |-> "unknown term type"]

termFromJSON(b) ==
    CASE b.Type = "bnode" -> NewBlank(b.Value)
      [] b.Type = "uri" -> NewIRI(b.Value)
      [] b.Type = "literal" ->
            IF Len(b.Lang) # 0
            THEN NewLangLiteral(b.Value, b.Lang)
            ELSE [term |-> NewTypedLiteral(b.Value, xsdString), err |-> NoErr]
      [] b.Type = "typed-literal" ->
            LET iri == NewIRI(b.DataType)
            IN  IF iri.err # NoErr
                THEN [term |-> NilTerm, err |-> iri.err]
                ELSE [term |-> NewTypedLiteral(b.Value, iri.term.str), err |-> NoErr]
      [] OTHER -> [term |-> NilTerm, err |-> "unknown term type"]

\* b[v] on a Go map: the zero value when the key is missing
MapGet(row, v) == IF v \in DOMAIN row THEN row[v] ELSE ZeroBinding

\* rb[v] = append(rb[v], t): a missing key reads as the nil slice
MapAppend(rb, v, t) ==
    [k \in DOMAIN rb \cup {v} |->
        IF k = v THEN Append(IF v \in DOMAIN rb THEN rb[v] ELSE <<>>, t) ELSE rb[k]]

RECURSIVE BindingsRowsAbort(_, _, _, _)
\* a Bindings whose scan of a variable stops at the first binding that fails
BindingsRowsAbort(rb, v, rows, i) ==
    IF i > Len(rows) THEN rb
    ELSE LET t == termFromJSON(MapGet(rows[i], v))
         IN  IF t.err = NoErr
             THEN BindingsRowsAbort(MapAppend(rb, v, t.term), v, rows, i + 1)
             ELSE rb

RECURSIVE BindingsRows(_, _, _, _)
\* the inner loop of Bindings: rows i.. of the result, for head variable v
BindingsRows(rb, v, rows, i) ==
    IF i > Len(rows) THEN rb
    ELSE LET t == termFromJSON(MapGet(rows[i], v))
         IN  BindingsRows(IF t.err = NoErr THEN MapAppend(rb, v, t.term) ELSE rb,
                          v, rows, i + 1)

RECURSIVE BindingsVars(_, _, _)
\* the outer loop of Bindings: head variables j.. in declaration order
BindingsVars(rb, r, j) ==
    IF j > Len(r.Head.Vars) THEN rb
    ELSE BindingsVars(BindingsRows(rb, r.Head.Vars[j], r.Results.Bindings, 1), r, j + 1)

Bindings(r) == BindingsVars(<<>>, r, 1)

\* one solution: the bound variables whose term materialises
Solution(s) ==
    [k \in {k \in DOMAIN s : termFromJSON(s[k]).err = NoErr} |-> termFromJSON(s[k]).term]

\* a Solutions that leaves out the rows in which nothing materialises
SolutionsSkipEmpty(r) ==
    SelectSeq([i \in 1..Len(r.Results.Bindings) |-> Solution(r.Results.Bindings[i])],
              LAMBDA m : DOMAIN m # {})

Solutions(r) == [i \in 1..Len(r.Results.Bindings) |-> Solution(r.Results.Bindings[i])]

(***************************************************************************)
(* Inputs of the decoder: parsed results over two variable names and three *)
(* bindings (two that materialise to different terms, one of an unknown    *)
(* kind); a variable a row does not bind reads as the zero Binding.        *)
(***************************************************************************)
VarNames == {"x", "y"}

KnownKinds == {"bnode", "uri", "literal", "typed-literal"}

BUri == [Type |-> "uri", Value |-> <<"http://example.org/x">>, Lang |-> <<>>, DataType |-> <<>>]

BLang == [Type |-> "literal", Value |-> <<"h", "i">>, Lang |-> <<"e", "n">>, DataType |-> <<>>]

BFoo == [Type |-> "foo", Value |-> <<"v">>, Lang |-> <<>>, DataType |-> <<>>]

BulkBindings == {BUri, BLang, BFoo}

Rows == UNION {[D -> BulkBindings] : D \in SUBSET VarNames}

\* what ParseJSON can return: any head, any rows (the decoder checks neither
\* that the head's names are distinct nor that rows bind declared names only)
AllResults ==
    {[Head |-> [Vars |-> vs], Results |-> [Bindings |-> bs]] :
        vs \in BoundedSeq(VarNames, MaxVars), bs \in BoundedSeq(Rows, MaxRows)}

NoCall ==
    [op |-> "none", arg |-> ZeroBinding, single |-> [term |-> NilTerm, err |-> NoErr],
     bindings |-> <<>>, solutions |-> <<>>]

NoResults == [Head |-> [Vars |-> <<>>], Results |-> [Bindings |-> <<>>]]

NoLast ==
    [op |-> "none", repo |-> 0, err |-> NoErr, msg |-> <<>>, result |-> "nil",
     resp |-> [ok |-> FALSE, status |-> -1, body |-> <<>>, readErr |-> FALSE,
               wellFormed |-> FALSE],
     opts |-> <<>>, applied |-> <<>>,
     used |-> [Timeout |-> "unused", Transport |-> "unused"],
     obtained |-> FALSE, closed |-> FALSE]

ZeroClient == [Timeout |-> "0", Transport |-> "nil"]

ClientIdle ==
    /\ DefaultClient = ZeroClient
    /\ repos = <<>>
    /\ wanted = <<>>
    /\ last = NoLast
    /\ openBodies = 0
    /\ pc = <<>>

ClientVars == <<DefaultClient, repos, wanted, last, openBodies, pc>>

DecodeInit ==
    /\ res \in AllResults
    /\ call = NoCall
    /\ ClientIdle

CallBindings ==
    /\ call' = [NoCall EXCEPT !.op = "Bindings", !.bindings = Bindings(res)]
    /\ UNCHANGED <<res, ClientVars>>

CallSolutions ==
    /\ call' = [NoCall EXCEPT !.op = "Solutions", !.solutions = Solutions(res)]
    /\ UNCHANGED <<res, ClientVars>>

\* one binding of the result materialised on its own
CallTermFromJSON ==
    /\ \E i \in DOMAIN res.Results.Bindings :
         \E k \in DOMAIN res.Results.Bindings[i] :
            LET b == res.Results.Bindings[i][k]
            IN  call' = [NoCall EXCEPT !.op = "termFromJSON", !.arg = b,
                                       !.single = termFromJSON(b)]
    /\ UNCHANGED <<res, ClientVars>>

DecodeNext == CallBindings \/ CallSolutions \/ CallTermFromJSON

SpecDecode == DecodeInit /\ [][DecodeNext]_vars

(***************************************************************************)
(* Claims about Results.Bindings and Results.Solutions (SpecDecode).       *)
(***************************************************************************)
rows == res.Results.Bindings

Materialises(b) == termFromJSON(b).err = NoErr

HasUnknownKind == \E i \in DOMAIN rows : \E k \in DOMAIN rows[i] : rows[i][k].Type \notin KnownKinds

\* the unknown-kind bindings are left out of a bulk output
UnknownKindOmitted ==
    /\ call.op = "Solutions" =>
         \A i \in DOMAIN rows : \A k \in DOMAIN rows[i] :
            rows[i][k].Type \notin KnownKinds => k \notin DOMAIN call.solutions[i]
    /\ call.op = "Bindings" =>
         \A v \in DOMAIN call.bindings : \A t \in Range(call.bindings[v]) :
            \E i \in DOMAIN rows :
                /\ v \in DOMAIN rows[i]
                /\ termFromJSON(rows[i][v]) = [term |-> t, err |-> NoErr]

\* every binding among the variables vs that materialises is in the bulk output
GoodBindingsKept(vs) ==
    /\ call.op = "Solutions" =>
         /\ Len(call.solutions) = Len(rows)
         /\ \A i \in DOMAIN rows : \A k \in DOMAIN rows[i] :
              Materialises(rows[i][k]) =>
                 /\ k \in DOMAIN call.solutions[i]
                 /\ call.solutions[i][k] = termFromJSON(rows[i][k]).term
    /\ call.op = "Bindings" =>
         \A i \in DOMAIN rows : \A k \in DOMAIN rows[i] \cap vs :
            Materialises(rows[i][k]) =>
               /\ k \in DOMAIN call.bindings
               /\ termFromJSON(rows[i][k]).term \in Range(call.bindings[k])

UnknownKindFailsAlone ==
    (call.op = "termFromJSON" /\ call.arg.Type \notin KnownKinds) =>
        (call.single.err # NoErr /\ call.single.term = NilTerm)

\* C1 as stated: a binding of unknown kind fails on its own; in Bindings() and
\* Solutions() it is omitted and every other binding of the result that
\* materialises is in the output.
C1_AsStated ==
    /\ UnknownKindFailsAlone
    /\ HasUnknownKind => (UnknownKindOmitted /\ GoodBindingsKept(VarNames))

\* C1 as amended: a binding of unknown kind fails on its own; in Bindings() and
\* Solutions() it is omitted; Solutions() keeps every other binding that
\* materialises, and Bindings() keeps every other binding that materialises
\* under a variable the head declares.
C1_BadBindingOmittedOthersKept ==
    /\ UnknownKindFailsAlone
    /\ HasUnknownKind =>
         /\ UnknownKindOmitted
         /\ call.op = "Solutions" => GoodBindingsKept(VarNames)
         /\ call.op = "Bindings" => GoodBindingsKept(Range(res.Head.Vars))

C1_Witness ==
    /\ call.op = "Bindings"
    /\ res.Head.Vars = <<"x", "y">>
    /\ Len(rows) = 2
    /\ rows[1] = [k \in {"x", "y"} |-> IF k = "x" THEN BFoo ELSE BUri]
    /\ rows[2] = [k \in {"x"} |-> BLang]
    /\ DOMAIN call.bindings = {"x", "y"}

\* C2: Bindings() returns at most N keys (N the length of head.vars), and at
\* most M terms under every key (M the number of rows).
C2_AtMostNKeysMTerms ==
    call.op = "Bindings" =>
        /\ Cardinality(DOMAIN call.bindings) <= Len(res.Head.Vars)
        /\ \A v \in DOMAIN call.bindings : Len(call.bindings[v]) <= Len(rows)

RECURSIVE TermsInRowOrder(_, _)
\* the terms of the rows i.. in which v is bound and materialises, in row order
TermsInRowOrder(v, i) ==
    IF i > Len(rows) THEN <<>>
    ELSE IF v \in DOMAIN rows[i] /\ Materialises(rows[i][v])
    THEN <<termFromJSON(rows[i][v]).term>> \o TermsInRowOrder(v, i + 1)
    ELSE TermsInRowOrder(v, i + 1)

\* C10: under every declared variable v, Bindings() holds exactly the terms of
\* the rows where v is bound and materialises, in row order, and no key when
\* there is none.
C10_ExactlyRowTerms ==
    call.op = "Bindings" =>
        \A v \in Range(res.Head.Vars) :
            IF TermsInRowOrder(v, 1) = <<>>
            THEN v \notin DOMAIN call.bindings
            ELSE v \in DOMAIN call.bindings /\ call.bindings[v] = TermsInRowOrder(v, 1)

\* C3: Solutions() returns one map per row, in row order; the i-th map's keys
\* are the variables of row i whose binding materialises, each with its term.
C3_OneMapPerRow ==
    call.op = "Solutions" =>
        /\ Len(call.solutions) = Len(rows)
        /\ \A i \in DOMAIN rows :
             /\ DOMAIN call.solutions[i] = {k \in DOMAIN rows[i] : Materialises(rows[i][k])}
             /\ \A k \in DOMAIN call.solutions[i] :
                  call.solutions[i][k] = termFromJSON(rows[i][k]).term

C3_Witness ==
    /\ call.op = "Solutions"
    /\ Len(rows) = 2
    /\ rows[1] = [k \in {"x", "y"} |-> BFoo]
    /\ call.solutions[1] = <<>>
    /\ DOMAIN call.solutions[2] = {"x"}

(***************************************************************************)
(* termFromJSON on its own (SpecTerm): every binding over a few kinds,     *)
(* values, language tags and datatypes, valid and invalid.                 *)
(***************************************************************************)
Kinds == KnownKinds \cup {"foo", ""}

Values == {<<>>, <<" ">>, <<"4", "2">>, <<"http://example.org/x">>, <<"<">>}

Langs == {<<>>, <<"e", "n">>, <<"e", "n", "-", "1">>, <<"-">>, <<"1">>}

xsdInteger == <<"http://www.w3.org/2001/XMLSchema#integer">>

DataTypes == {<<>>, xsdInteger, <<" ">>}

AllBindings == [Type : Kinds, Value : Values, Lang : Langs, DataType : DataTypes]

TermInit ==
    /\ res = NoResults
    /\ call = NoCall
    /\ ClientIdle

TermCall ==
    /\ \E b \in AllBindings :
         call' = [NoCall EXCEPT !.op = "termFromJSON", !.arg = b, !.single = termFromJSON(b)]
    /\ UNCHANGED <<res, ClientVars>>

SpecTerm == TermInit /\ [][TermCall]_vars

BlankOf(v) == [kind |-> "Blank", str |-> v, lang |-> <<>>, DataType |-> <<>>]

IRIOf(v) == [kind |-> "IRI", str |-> v, lang |-> <<>>, DataType |-> <<>>]

LangLiteralOf(v, l) == [kind |-> "Literal", str |-> v, lang |-> l, DataType |-> rdfLangString]

TypedLiteralOf(v, dt) == [kind |-> "Literal", str |-> v, lang |-> <<>>, DataType |-> dt]

ValidIRI(v) == Len(v) > 0 /\ \A i \in DOMAIN v : v[i] \notin DisallowedIRIChars

Gives(t) == call.single = [term |-> t, err |-> NoErr]

Fails == call.single.err # NoErr

\* the kinds of C4 whose outcome does not depend on the validity of the value
C4_CommonCases ==
    LET b == call.arg
    IN  /\ (b.Type = "literal" /\ Len(b.Lang) = 0) => Gives(TypedLiteralOf(b.Value, xsdString))
        /\ b.Type = "typed-literal" =>
              IF ValidIRI(b.DataType) THEN Gives(TypedLiteralOf(b.Value, b.DataType)) ELSE Fails
        /\ b.Type \notin KnownKinds => (Fails /\ call.single.term = NilTerm)

OptTimeout == [kind |-> "Timeout", arg |-> "5s"]

\* arg stands for digest.NewTransport(username, password)
OptDigestAuth == [kind |-> "DigestAuth", arg |-> "digest(user,pw)"]

OptFail(e) == [kind |-> "Fail", arg |-> e]

Options == {OptTimeout, OptDigestAuth, OptFail("e1")}

OptionLists == BoundedSeq(Options, MaxOpts)

GoodEndpoint == "http://host/sparql"

\* an address url.Parse rejects, so that http.NewRequest fails
BadEndpoint == ":"

\* Repo{endpoint: addr, client: http.DefaultClient}: client is a pointer
NewRepoValue(addr) == [endpoint |-> addr, client |-> "DefaultClient"]

\* one option function applied to the client c that r.client points to
ApplyOption(c, o) ==
    CASE o.kind = "Timeout" -> [client |-> [c EXCEPT !.Timeout = o.arg], err |-> NoErr]
      [] o.kind = "DigestAuth" ->
            [client |-> [c EXCEPT !.Transport = o.arg], err |-> NoErr]
      [] OTHER -> [client |-> c, err |-> o.arg]

RECURSIVE SetOptionKeepGoing(_, _, _, _)
\* a SetOption that applies every option and reports the last error
SetOptionKeepGoing(c, options, i, applied) ==
    IF i > Len(options) THEN [client |-> c, err |-> NoErr, applied |-> applied]
    ELSE LET a == ApplyOption(c, options[i])
             rest == SetOptionKeepGoing(a.client, options, i + 1, Append(applied, options[i]))
         IN  IF a.err # NoErr /\ rest.err = NoErr THEN [rest EXCEPT !.err = a.err] ELSE rest

RECURSIVE SetOptionFrom(_, _, _, _)
\* the loop of SetOption from option i on: stop at the first error;
\* applied lists the option functions that were called
SetOptionFrom(c, options, i, applied) ==
    IF i > Len(options) THEN [client |-> c, err |-> NoErr, applied |-> applied]
    ELSE LET a == ApplyOption(c, options[i])
         IN  IF a.err # NoErr
             THEN [client |-> a.client, err |-> a.err, applied |-> Append(applied, options[i])]
             ELSE SetOptionFrom(a.client, options, i + 1, Append(applied, options[i]))

SetOption(c, options) == SetOptionFrom(c, options, 1, <<>>)

\* the configuration a Repo's own options ask for, on top of cfg
RECURSIVE Configured(_, _, _)
Configured(cfg, options, i) ==
    IF i > Len(options) THEN cfg
    ELSE Configured(ApplyOption(cfg, options[i]).client, options, i + 1)

\* the client a Repo's requests go through
ClientOf(r) == IF r.client = "DefaultClient" THEN DefaultClient ELSE ZeroClient

\* NewRepo(addr, options...): the Repo is returned together with the error
NewRepo(addr) ==
    /\ Len(repos) < MaxRepos
    /\ \E options \in OptionLists :
         LET r == NewRepoValue(addr)
             s == SetOption(ClientOf(r), options)
         IN  /\ DefaultClient' = s.client
             /\ repos' = Append(repos, r)
             /\ wanted' = Append(wanted, Configured(ZeroClient, s.applied, 1))
             /\ last' = [NoLast EXCEPT !.op = "NewRepo", !.repo = Len(repos) + 1,
                                       !.err = s.err, !.opts = options,
                                       !.applied = s.applied]
    /\ UNCHANGED <<res, call, openBodies, pc>>

\* r.SetOption(options...) on a Repo built earlier
SetOptionCall ==
    /\ \E i \in DOMAIN repos : \E options \in OptionLists :
         LET s == SetOption(ClientOf(repos[i]), options)
         IN  /\ DefaultClient' = s.client
             /\ wanted' = [wanted EXCEPT ![i] = Configured(@, s.applied, 1)]
             /\ last' = [NoLast EXCEPT !.op = "SetOption", !.repo = i,
                                       !.err = s.err, !.opts = options,
                                       !.applied = s.applied]
    /\ UNCHANGED <<res, call, repos, openBodies, pc>>

(***************************************************************************)
(* repo.go: Query, Update, Construct                                       *)
(***************************************************************************)
StatusOK == 200

StatusLine(code) ==
    CASE code = 200 -> <<"200 OK">>
      [] code = 404 -> <<"404 Not Found">>
      [] code = 500 -> <<"500 Internal Server Error">>

ErrorStatuses == {404, 500}

rb == <<"Response body: \n">>

readFailMsg == <<"Failed to read response body">>

\* characters of a response body: a letter, a space, a percent sign
BodyChars == {"a", " ", "%"}

Bodies == BoundedSeq(BodyChars, MaxBody)

\* what client.Do can yield: an error and no response, a 200 response (its
\* body decodes or not, is readable or not), or a non-200 response whose body
\* is read in full or whose read fails
TransportError ==
    [ok |-> FALSE, status |-> 0, body |-> <<>>, readErr |-> FALSE, wellFormed |-> FALSE]

OKResponses ==
    {[ok |-> TRUE, status |-> StatusOK, body |-> <<>>, readErr |-> re, wellFormed |-> wf] :
        re \in BOOLEAN, wf \in BOOLEAN}

ErrorResponses ==
    {[ok |-> TRUE, status |-> st, body |-> b, readErr |-> FALSE, wellFormed |-> FALSE] :
        st \in ErrorStatuses, b \in Bodies}
    \cup
    {[ok |-> TRUE, status |-> st, body |-> <<>>, readErr |-> TRUE, wellFormed |-> FALSE] :
        st \in ErrorStatuses}

AllResponses == {TransportError} \cup OKResponses \cup ErrorResponses

\* fmt: the flags that may follow the percent sign (here only the space occurs)
FmtFlags == {" ", "#", "0", "+", "-"}

RECURSIVE SkipFlags(_, _)
SkipFlags(format, i) ==
    IF i <= Len(format) /\ format[i] \in FmtFlags THEN SkipFlags(format, i + 1) ELSE i

\* fmt: operands left over when the format is used up
ExtraArgs(a, argNum) ==
    IF argNum <= Len(a) THEN <<"%", "!(EXTRA string=">> \o a[argNum] \o <<")">> ELSE <<>>

RECURSIVE doPrintf(_, _, _, _)
\* fmt.Sprintf over the format from position i, argNum the next operand
doPrintf(format, i, a, argNum) ==
    IF i > Len(format) THEN ExtraArgs(a, argNum)
    ELSE IF format[i] # "%" THEN <<format[i]>> \o doPrintf(format, i + 1, a, argNum)
    ELSE LET j == SkipFlags(format, i + 1)
         IN  IF j > Len(format) THEN <<"%", "!(NOVERB)">> \o ExtraArgs(a, argNum)
             ELSE IF format[j] = "%" THEN <<"%">> \o doPrintf(format, j + 1, a, argNum)
             ELSE IF argNum > Len(a)
             THEN <<"%", "!", format[j], "(MISSING)">> \o doPrintf(format, j + 1, a, argNum)
             ELSE IF format[j] \in {"s", "v"}
             THEN a[argNum] \o doPrintf(format, j + 1, a, argNum + 1)
             ELSE <<"%", "!", format[j], "(string=">> \o a[argNum] \o <<")">>
                  \o doPrintf(format, j + 1, a, argNum + 1)

Sprintf(format, a) == doPrintf(format, 1, a, 1)

\* the text appended to the format on a non-200 response
FailureMsg(resp) ==
    IF resp.readErr THEN readFailMsg
    ELSE IF ~TrimSpaceEmpty(resp.body) THEN rb \o resp.body
    ELSE <<>>

ErrorPrefix(op) ==
    IF op = "Construct" THEN <<"Construct: SPARQL request failed: ">>
    ELSE <<"Query: SPARQL request failed: ">>

\* fmt.Errorf(prefix + "%s. " + msg, resp.Status)
StatusError(op, resp) ==
    Sprintf(ErrorPrefix(op) \o <<"%", "s", ". ">> \o FailureMsg(resp),
            <<StatusLine(resp.status)>>)

\* the zero result each operation returns beside an error
NoResult(op) == IF op = "Update" THEN "" ELSE "nil"

\* the part of a call after a 200 status
OnStatusOK(op, resp) ==
    CASE op = "Query" ->
            IF resp.readErr \/ ~resp.wellFormed
            THEN [err |-> "decode", result |-> "nil"]
            ELSE [err |-> NoErr, result |-> "results"]
      [] op = "Update" -> [err |-> NoErr, result |-> "OK"]
      [] op = "Construct" ->
            IF resp.readErr \/ ~resp.wellFormed
            THEN [err |-> "decode", result |-> "nil"]
            ELSE [err |-> NoErr, result |-> "triples"]

Outcome(err, msg, result, obtained, closed) ==
    [err |-> err, msg |-> msg, result |-> result, obtained |-> obtained, closed |-> closed]

\* an exchange that closes the body only on the 200 path
ExchangeNoDefer(op, r, resp) ==
    IF r.endpoint = BadEndpoint THEN Outcome("NewRequest", <<>>, NoResult(op), FALSE, FALSE)
    ELSE IF ~resp.ok THEN Outcome("Do", <<>>, NoResult(op), FALSE, FALSE)
    ELSE IF resp.status # StatusOK
    THEN Outcome("status", StatusError(op, resp), NoResult(op), TRUE, FALSE)
    ELSE Outcome(OnStatusOK(op, resp).err, <<>>, OnStatusOK(op, resp).result, TRUE, TRUE)

\* one Query, Update or Construct call of Repo r, given what the server does:
\* obtained says a response body was obtained, closed that the deferred
\* resp.Body.Close() ran before the return
Exchange(op, r, resp) ==
    IF r.endpoint = BadEndpoint THEN Outcome("NewRequest", <<>>, NoResult(op), FALSE, FALSE)
    ELSE IF ~resp.ok THEN Outcome("Do", <<>>, NoResult(op), FALSE, FALSE)
    ELSE IF resp.status # StatusOK
    THEN Outcome("status", StatusError(op, resp), NoResult(op), TRUE, TRUE)
    ELSE Outcome(OnStatusOK(op, resp).err, <<>>, OnStatusOK(op, resp).result, TRUE, TRUE)

Held(x) == (IF x.obtained THEN 1 ELSE 0) - (IF x.closed THEN 1 ELSE 0)

\* a call of op on Repo i, the server answering with resp
Requested(op, i, resp) ==
    LET x == Exchange(op, repos[i], resp)
    IN  /\ last' = [NoLast EXCEPT !.op = op, !.repo = i, !.err = x.err, !.msg = x.msg,
                                  !.result = x.result, !.resp = resp,
                                  !.used = IF x.err = "NewRequest" THEN NoLast.used
                                           ELSE ClientOf(repos[i]),
                                  !.obtained = x.obtained, !.closed = x.closed]
        /\ openBodies' = openBodies + Held(x)
        /\ UNCHANGED <<res, call, DefaultClient, repos, wanted, pc>>

\* r.Query(q), the server answering with one of R
Query(R) == \E i \in DOMAIN repos : \E resp \in R : Requested("Query", i, resp)

\* r.Update(q)
Update(R) == \E i \in DOMAIN repos : \E resp \in R : Requested("Update", i, resp)

\* r.Construct(q)
Construct(R) == \E i \in DOMAIN repos : \E resp \in R : Requested("Construct", i, resp)

(***************************************************************************)
(* SpecHttp: the three operations on one Repo against every response.      *)
(* SpecRepo: Repos built and reconfigured, and requests made through them. *)
(***************************************************************************)
Ops == {"Query", "Update", "Construct"}

HttpInit ==
    /\ res = NoResults
    /\ call = NoCall
    /\ DefaultClient = ZeroClient
    /\ \E addr \in {GoodEndpoint, BadEndpoint} : repos = <<NewRepoValue(addr)>>
    /\ wanted = <<ZeroClient>>
    /\ last = NoLast
    /\ openBodies = 0
    /\ pc = <<>>

HttpNext == Query(AllResponses) \/ Update(AllResponses) \/ Construct(AllResponses)

SpecHttp == HttpInit /\ [][HttpNext]_vars

SmallResponses ==
    {TransportError,
     [ok |-> TRUE, status |-> StatusOK, body |-> <<>>, readErr |-> FALSE, wellFormed |-> TRUE],
     [ok |-> TRUE, status |-> 500, body |-> <<>>, readErr |-> FALSE, wellFormed |-> FALSE]}

RepoInit ==
    /\ res = NoResults
    /\ call = NoCall
    /\ ClientIdle

RepoNext ==
    \/ NewRepo(GoodEndpoint)
    \/ SetOptionCall
    \/ Query(SmallResponses)
    \/ Update(SmallResponses)
    \/ Construct(SmallResponses)

SpecRepo == RepoInit /\ [][RepoNext]_vars

\* sub occurs in s as a run of consecutive elements
Contains(s, sub) ==
    \E k \in 0..(Len(s) - Len(sub)) : SubSeq(s, k + 1, k + Len(sub)) = sub

GotNon200 == last.op \in Ops /\ last.err \notin {"NewRequest", "Do"} /\ last.resp.status # StatusOK

\* C5: on a status other than 200 each operation returns an error and no
\* result, and the message embeds the status line with the raw body when the
\* body was read and is not empty, and with the fixed indicator otherwise.
C5_AsStated ==
    GotNon200 =>
        /\ last.err # NoErr
        /\ last.result = NoResult(last.op)
        /\ Contains(last.msg, StatusLine(last.resp.status))
        /\ IF ~last.resp.readErr /\ last.resp.body # <<>>
           THEN Contains(last.msg, last.resp.body)
           ELSE Contains(last.msg, readFailMsg)

\* C9: a body obtained from an exchange is closed before the call returns, on
\* every path; a failed exchange holds none; no body stays open after a call.
C9_BodiesClosed ==
    /\ openBodies = 0
    /\ last.op \in Ops =>
         /\ last.obtained => last.closed
         /\ last.obtained <=> (last.err \notin {"NewRequest", "Do"})
         /\ (repos[last.repo].endpoint = GoodEndpoint /\ last.resp.ok) => last.obtained

C9_Witness ==
    /\ last.op = "Construct"
    /\ last.err = "decode"
    /\ last.obtained
    /\ last.closed
    /\ openBodies = 0

FirstFail(options) ==
    IF \E i \in DOMAIN options : options[i].kind = "Fail"
    THEN CHOOSE i \in DOMAIN options :
            /\ options[i].kind = "Fail"
            /\ \A j \in 1..(i - 1) : options[j].kind # "Fail"
    ELSE 0

\* C6: the options are applied in the order given up to and including the
\* first one that fails, none after it; the error returned is that option's
\* error, and nil only when no option failed.
C6_FailFast ==
    last.op \in {"NewRepo", "SetOption"} =>
        LET k == FirstFail(last.opts)
        IN  IF k = 0
            THEN last.err = NoErr /\ last.applied = last.opts
            ELSE last.err = last.opts[k].arg /\ last.applied = SubSeq(last.opts, 1, k)

C6_Witness ==
    /\ last.op = "NewRepo"
    /\ last.opts = <<OptFail("e1"), OptTimeout>>
    /\ last.err = "e1"
    /\ last.applied = <<OptFail("e1")>>
    /\ DefaultClient.Timeout = "0"

\* C7: every Repo's requests use the timeout and transport its own options
\* set, whatever other Repos were built or configured meanwhile.
C7_AsStated ==
    /\ \A i \in DOMAIN repos : ClientOf(repos[i]) = wanted[i]
    /\ (last.op \in Ops /\ last.used # NoLast.used) => last.used = wanted[last.repo]

(***************************************************************************)
(* SpecConc: several callers use the package at the same time.  A call is  *)
(* split where it touches the http.Client its Repo points to: client.Do    *)
(* reads the client's Timeout and Transport, an option function writes     *)
(* one of them.  None of these accesses is synchronised.                   *)
(***************************************************************************)
NCallers == 2

Callers == 1..NCallers

IdlePc ==
    [at |-> "idle", op |-> "none", repo |-> 0, opts |-> <<>>,
     cfg |-> ZeroClient, seen |-> NoLast.used, want |-> NoLast.used]

ConcInit ==
    /\ res = NoResults
    /\ call = NoCall
    /\ DefaultClient = ZeroClient
    /\ repos = <<NewRepoValue(GoodEndpoint)>>
    /\ wanted = <<ZeroClient>>
    /\ last = NoLast
    /\ openBodies = 0
    /\ pc = [p \in Callers |-> IdlePc]

\* the fields of the client an option function writes
WritesOf(o) ==
    CASE o.kind = "Timeout" -> {"Timeout"}
      [] o.kind = "DigestAuth" -> {"Transport"}
      [] OTHER -> {}

\* the fields caller p's next step writes, and reads
NextWrites(p) == IF pc[p].at = "write" THEN WritesOf(Head(pc[p].opts)) ELSE {}

NextReads(p) == IF pc[p].at = "do" THEN {"Timeout", "Transport"} ELSE {}

\* Query, Update, Construct up to client.Do: the request is built
BeginRequest(p) ==
    /\ pc[p].at = "idle"
    /\ \E op \in Ops : \E i \in DOMAIN repos :
         pc' = [pc EXCEPT ![p] = [IdlePc EXCEPT !.at = "do", !.op = op, !.repo = i,
                                                !.want = wanted[i]]]
    /\ UNCHANGED <<res, call, DefaultClient, repos, wanted, last, openBodies>>

\* the values a read of field f by caller p can yield: the stored one, or,
\* when another caller is about to write f without synchronisation, the one
\* being written
ReadValues(p, f) ==
    {ClientOf(repos[pc[p].repo])[f]} \cup
    {ApplyOption(DefaultClient, Head(pc[q].opts)).client[f] :
        q \in {q \in Callers \ {p} : f \in NextWrites(q)}}

\* client.Do: the client's configuration is read and the exchange made
Do(p) ==
    /\ pc[p].at = "do"
    /\ \E t \in ReadValues(p, "Timeout") : \E tr \in ReadValues(p, "Transport") :
       \E resp \in SmallResponses :
         LET x == Exchange(pc[p].op, repos[pc[p].repo], resp)
         IN  /\ pc' = [pc EXCEPT ![p] =
                         IF x.obtained
                         THEN [@ EXCEPT !.at = "wait", !.seen = [Timeout |-> t, Transport |-> tr]]
                         ELSE IdlePc]
             /\ openBodies' = openBodies + (IF x.obtained THEN 1 ELSE 0)
    /\ UNCHANGED <<res, call, DefaultClient, repos, wanted, last>>

\* the rest of the call: the body is used, the deferred Close runs, the call returns
Return(p) ==
    /\ pc[p].at = "wait"
    /\ pc' = [pc EXCEPT ![p] = IdlePc]
    /\ openBodies' = openBodies - 1
    /\ UNCHANGED <<res, call, DefaultClient, repos, wanted, last>>

\* r.SetOption(options...) entered with at least one option
BeginSetOption(p) ==
    /\ pc[p].at = "idle"
    /\ \E i \in DOMAIN repos : \E options \in OptionLists \ {<<>>} :
         pc' = [pc EXCEPT ![p] = [IdlePc EXCEPT !.at = "write", !.op = "SetOption",
                                                !.repo = i, !.opts = options,
                                                !.cfg = wanted[i]]]
    /\ UNCHANGED <<res, call, DefaultClient, repos, wanted, last, openBodies>>

\* NewRepo entered with at least one option: the Repo value is still local
BeginNewRepo(p) ==
    /\ pc[p].at = "idle"
    /\ Len(repos) + Cardinality({q \in Callers : pc[q].op = "NewRepo"}) < MaxRepos
    /\ \E options \in OptionLists \ {<<>>} :
         pc' = [pc EXCEPT ![p] = [IdlePc EXCEPT !.at = "write", !.op = "NewRepo",
                                                !.opts = options]]
    /\ UNCHANGED <<res, call, DefaultClient, repos, wanted, last, openBodies>>

\* one turn of SetOption's loop: the next option function runs
Write(p) ==
    /\ pc[p].at = "write"
    /\ LET o == Head(pc[p].opts)
           a == ApplyOption(DefaultClient, o)
           cfg == ApplyOption(pc[p].cfg, o).client
           done == a.err # NoErr \/ Len(pc[p].opts) = 1
       IN  /\ DefaultClient' = a.client
           /\ pc' = [pc EXCEPT ![p] =
                        IF done THEN IdlePc
                        ELSE [@ EXCEPT !.opts = Tail(@), !.cfg = cfg]]
           /\ repos' = IF done /\ pc[p].op = "NewRepo"
                       THEN Append(repos, NewRepoValue(GoodEndpoint)) ELSE repos
           /\ wanted' = IF pc[p].op = "SetOption" THEN [wanted EXCEPT ![pc[p].repo] = cfg]
                        ELSE IF done THEN Append(wanted, cfg)
                        ELSE wanted
    /\ UNCHANGED <<res, call, last, openBodies>>

ConcNext ==
    \E p \in Callers :
        \/ BeginRequest(p)
        \/ Do(p)
        \/ Return(p)
        \/ BeginSetOption(p)
        \/ BeginNewRepo(p)
        \/ Write(p)

SpecConc == ConcInit /\ [][ConcNext]_vars

\* two callers are about to touch the same field of the same client, one of
\* them writing it
DataRace ==
    \E p \in Callers : \E q \in Callers \ {p} :
        NextWrites(p) \cap (NextReads(q) \cup NextWrites(q)) # {}

\* C8: under any interleaving of the public operations no call reads or
\* writes what another call is writing, and each request goes out with the
\* configuration of its own Repo, whatever the other calls do.
C8_AsStated ==
    /\ ~DataRace
    /\ \A p \in Callers : pc[p].at = "wait" => pc[p].seen = pc[p].want
====
